---- MODULE Spec2Model ----
(***************************************************************************)
(* The live control-and-feedback loop of the prompt DJ: the per-slot       *)
(* PromptController elements, the PromptDjMidi registry that aggregates    *)
(* them, the wiring in main() and the AudioAnalyser sampling loop.         *)
(*                                                                         *)
(* Weights are real numbers in the program.  They are kept here as         *)
(* integers in units of 1/WeightUnit, WeightUnit = 10 * 127, so that both  *)
(* (value / 127) * 2 and the decimal knob values (1.4, 0.5) are exact.     *)
(* A text is a sequence of tokens, each a word or the blank " ".           *)
(* Lit renders a changed element in a microtask that runs before the next  *)
(* event is delivered, so every action ends with the render it requests.   *)
(***************************************************************************)
EXTENDS Integers, Sequences, FiniteSets, TLC

VARIABLES
    prompts,            \* PromptDjMidi.prompts: Map<string, Prompt>, in insertion order
    slots,              \* the rendered <prompt-controller> elements, in grid order
    showMidi,           \* PromptDjMidi.showMidi
    filteredPrompts,    \* PromptDjMidi.filteredPrompts
    midiInputIds,       \* PromptDjMidi.midiInputIds
    activeMidiInputId,  \* PromptDjMidi.activeMidiInputId
    pendingAccess,      \* setShowMidi calls suspended at await getMidiAccess()
    midiAccess,         \* the dispatcher has been granted access and listens
    clientPrompts,      \* last argument of liveMusicHelper.setWeightedPrompts
    fired,              \* prompt-changed events dispatched by the last step
    published,          \* prompts-changed events dispatched by the last step
    errors,             \* error events dispatched by the last step
    cleared,            \* slots that update() took out of learn mode in the last step
    clicked,            \* slot whose CC label the last step clicked (0 when it clicked none)
    playbackState,      \* PromptDjMidi.playbackState
    audioLevel,         \* PromptDjMidi.audioLevel
    frequencyData,      \* PromptDjMidi.frequencyData
    rafId,              \* AudioAnalyser.rafId (0 for null: handles are positive)
    rafPending,         \* animation-frame handles whose loop callback is still due
    rafLast,            \* last handle requestAnimationFrame returned
    canvasBars,         \* the bars painted on #visualizer-canvas (<<>>: cleared)
    feedPaused          \* no 'playing' was reported since the last 'stopped'/'paused'

vars == <<prompts, slots, showMidi, filteredPrompts, midiInputIds,
          activeMidiInputId, pendingAccess, midiAccess, clientPrompts,
          fired, published, errors, cleared, clicked,
          playbackState, audioLevel, frequencyData, rafId, rafPending, rafLast,
          canvasBars, feedPaused>>

promptVars == <<prompts, slots, showMidi, filteredPrompts, midiInputIds,
                activeMidiInputId, pendingAccess, midiAccess, clientPrompts,
                fired, published, errors, cleared, clicked>>

audioVars == <<playbackState, audioLevel, frequencyData, rafId, rafPending, rafLast,
               canvasBars, feedPaused>>

(***************************************************************************)
(* Bounds of the model.                                                    *)
(***************************************************************************)
\* setShowMidi calls that may be suspended at the same time
MaxPendingAccess == 1
\* animation-frame handles handed out in one run
MaxFrames == 5

(***************************************************************************)
(* Program constants.                                                      *)
(***************************************************************************)
MidiMax == 127
coreGenrePromptCount == 7
ByteMax == 255
fftSize == 256
WeightUnit == 10 * MidiMax
frequencyBinCount == fftSize \div 2

Blank == " "

DEFAULT_PROMPTS ==
    << [color |-> "#ff00ff", text |-> <<"Happy", Blank, "Hardstyle">>],
       [color |-> "#9d00ff", text |-> <<"Techno">>],
       [color |-> "#00f2ff", text |-> <<"Bounce">>],
       [color |-> "#fffb00", text |-> <<"Piano">>],
       [color |-> "#00ff88", text |-> <<"Rhythm">>],
       [color |-> "#ff3c00", text |-> <<"167", Blank, "BPM">>],
       [color |-> "#5200ff", text |-> <<"C", Blank, "Sharp">>],
       [color |-> "#ff0055", text |-> <<"Hardstyle", Blank, "Kick">>],
       [color |-> "#00ffcc", text |-> <<"Reverse", Blank, "Bass">>],
       [color |-> "#fff000", text |-> <<"Euphoric", Blank, "Lead">>],
       [color |-> "#ff00ff", text |-> <<"Rave", Blank, "Piano">>],
       [color |-> "#00ff66", text |-> <<"Offbeat", Blank, "Bass">>],
       [color |-> "#a200ff", text |-> <<"Supersaw">>],
       [color |-> "#ffff00", text |-> <<"Hands", Blank, "Up">>],
       [color |-> "#4d00ff", text |-> <<"Dancecore">>],
       [color |-> "#ff0077", text |-> <<"Makina">>] >>

\* `prompt-${i}`
PromptIdOf(i) == "prompt-" \o ToString(i)

buildInitialPrompts ==
    [k \in 1..Len(DEFAULT_PROMPTS) |->
        LET i == k - 1 IN
        [promptId |-> PromptIdOf(i),
         text     |-> DEFAULT_PROMPTS[k].text,
         weight   |-> IF i < coreGenrePromptCount THEN 1 * WeightUnit ELSE 0,
         cc       |-> i,
         color    |-> DEFAULT_PROMPTS[k].color]]

(***************************************************************************)
(* Inputs the environment may deliver.                                     *)
(***************************************************************************)
\* control-change messages: channel, controller number, 7-bit value
CcChannels == {15}
CcNumbers == {0, 1}
CcValues == {127}
\* where a pointer drag would take the weight knob: 1.4, and 2.5 past its end
KnobDrags == {(14 * WeightUnit) \div 10, (25 * WeightUnit) \div 10}
\* the weight knob keeps its value within [0, 2]
WeightKnobValue(dragged) ==
    IF dragged < 0 THEN 0
    ELSE IF dragged > 2 * WeightUnit THEN 2 * WeightUnit
    ELSE dragged
\* values of the weight knob after a pointer drag
KnobValues == { WeightKnobValue(dragged) : dragged \in KnobDrags }
\* contents of the text field when it loses focus
TextContents ==
    { <<>>, <<Blank>>, <<"Techno">>, <<Blank, "Acid", Blank, "Bass", Blank>> }
\* prompt texts the generation service may reject
FilterTexts == { <<"Techno">> }
\* results of a granted MIDI access request
DeviceLists == { <<"input-0">> }
\* the slots whose text field and knob the performer uses, and those whose
\* CC label the performer clicks
EditSlots == {1}
LearnSlots == {1, 2}
AccessFailures == { "PermissionDenied", "Unsupported" }
NoDevice == "null"
\* audio level 1.0, the level being kept in units of 1/LevelUnit
LevelUnit == frequencyBinCount * ByteMax
\* spectra the analyser node may hold: silence, and every bin at 0.8 * 255
Silence == [i \in 1..frequencyBinCount |-> 0]
Loud == [i \in 1..frequencyBinCount |-> (8 * ByteMax) \div 10]
Spectra == {Silence, Loud}

(***************************************************************************)
(* PromptController                                                        *)
(***************************************************************************)
\* String.prototype.trim on a token sequence
RECURSIVE TrimStart(_)
TrimStart(s) ==
    IF s # <<>> /\ Head(s) = Blank THEN TrimStart(Tail(s)) ELSE s

RECURSIVE TrimEnd(_)
TrimEnd(s) ==
    IF s # <<>> /\ s[Len(s)] = Blank THEN TrimEnd(SubSeq(s, 1, Len(s) - 1)) ELSE s

Trim(s) == TrimEnd(TrimStart(s))

\* mutant: the snapshot carries the channel where the controller belongs
dispatchPromptChangeChannelAsCc(slot) ==
    [target |-> slot,
     detail |-> [promptId |-> slot.promptId,
                 text     |-> slot.text,
                 weight   |-> slot.weight,
                 cc       |-> slot.channel,
                 color    |-> slot.color]]

\* the prompt-changed event: the element it is dispatched on, as it is at that
\* moment, and the detail built from it
dispatchPromptChange(slot) ==
    [target |-> slot,
     detail |-> [promptId |-> slot.promptId,
                 text     |-> slot.text,
                 weight   |-> slot.weight,
                 cc       |-> slot.cc,
                 color    |-> slot.color]]

\* mutant: the factor 2 of the weight range is missing
CcWeightUnscaled(value) == (value * WeightUnit) \div MidiMax

\* mutant: the 7-bit value is divided by 64, not by its maximum 127
CcWeightBy64(value) == (value * 2 * WeightUnit) \div 64

\* (value / 127) * 2
CcWeight(value) == (value * 2 * WeightUnit) \div MidiMax

\* mutant: learning rebinds the controller and forgets the channel
OnCcMessageKeepsChannel(slot, msg) ==
    IF slot.learnMode
    THEN LET s == [slot EXCEPT !.cc = msg.cc, !.learnMode = FALSE]
         IN [slot |-> s, events |-> <<dispatchPromptChange(s)>>]
    ELSE IF msg.cc = slot.cc
    THEN LET s == [slot EXCEPT !.weight = CcWeight(msg.value)]
         IN [slot |-> s, events |-> <<dispatchPromptChange(s)>>]
    ELSE [slot |-> slot, events |-> <<>>]

\* the cc-message listener of one slot: the slot after it, and what it dispatched
\* mutant: an Idle slot takes the value of any controller
OnCcMessageAnyController(slot, msg) ==
    IF slot.learnMode
    THEN LET s == [slot EXCEPT !.cc = msg.cc, !.channel = msg.channel,
                               !.learnMode = FALSE]
         IN [slot |-> s, events |-> <<dispatchPromptChange(s)>>]
    ELSE LET s == [slot EXCEPT !.weight = CcWeight(msg.value)]
         IN [slot |-> s, events |-> <<dispatchPromptChange(s)>>]

OnCcMessage(slot, msg) ==
    IF slot.learnMode
    THEN LET s == [slot EXCEPT !.cc = msg.cc, !.channel = msg.channel,
                               !.learnMode = FALSE]
         IN [slot |-> s, events |-> <<dispatchPromptChange(s)>>]
    ELSE IF msg.cc = slot.cc
    THEN LET s == [slot EXCEPT !.weight = CcWeight(msg.value)]
         IN [slot |-> s, events |-> <<dispatchPromptChange(s)>>]
    ELSE [slot |-> slot, events |-> <<>>]

resetText(slot) == [slot EXCEPT !.text = slot.lastValidText]

\* mutant: a new text is shown but not remembered as the last valid one
updateTextKeepsLastValid(slot, textContent) ==
    LET newText == Trim(textContent)
        s == IF newText = <<>>
             THEN resetText(slot)
             ELSE [slot EXCEPT !.text = newText]
    IN [slot |-> s, events |-> <<dispatchPromptChange(s)>>]

\* the blur handler of the text field, reading textContent
updateText(slot, textContent) ==
    LET newText == Trim(textContent)
        s == IF newText = <<>>
             THEN resetText(slot)
             ELSE [slot EXCEPT !.text = newText, !.lastValidText = newText]
    IN [slot |-> s, events |-> <<dispatchPromptChange(s)>>]

\* mutant: the knob sets the slot's weight and tells nobody
updateWeightSilent(slot, value) ==
    LET s == [slot EXCEPT !.weight = value]
    IN [slot |-> s, events |-> <<>>]

\* the input handler of the weight knob
updateWeight(slot, value) ==
    LET s == [slot EXCEPT !.weight = value]
    IN [slot |-> s, events |-> <<dispatchPromptChange(s)>>]

\* mutant: a click on the CC label enters learn mode and never leaves it
enterLearnMode(slot) == [slot EXCEPT !.learnMode = TRUE]

toggleLearnMode(slot) == [slot EXCEPT !.learnMode = ~slot.learnMode]

\* the #midi label is visibility: hidden, so it takes no click, unless .show-cc
MidiLabelClickable(slot) == slot.showCC

\* mutant: hiding the panel leaves learn mode alone
updateKeepsLearnMode(slot, showCCChanged) == slot

\* PromptController.update for a slot whose showCC binding was committed
update(slot, showCCChanged) ==
    IF showCCChanged /\ ~slot.showCC
    THEN [slot EXCEPT !.learnMode = FALSE]
    ELSE slot

(***************************************************************************)
(* PromptDjMidi                                                            *)
(***************************************************************************)
PromptIds(ps) == { ps[k].promptId : k \in DOMAIN ps }

\* Map.get: the position of the entry with this key
IndexOf(ps, promptId) == CHOOSE k \in DOMAIN ps : ps[k].promptId = promptId

\* mutant: the controller number is not copied into the registry
handlePromptChangedDropsCc(st, e) ==
    IF e.detail.promptId \notin PromptIds(st.prompts)
    THEN st
    ELSE LET k == IndexOf(st.prompts, e.detail.promptId)
             newPrompts == [st.prompts EXCEPT ![k].text = e.detail.text,
                                              ![k].weight = e.detail.weight]
         IN [prompts |-> newPrompts,
             published |-> Append(st.published, newPrompts)]

\* mutant: the weight is written to every entry of the registry
handlePromptChangedAllWeights(st, e) ==
    IF e.detail.promptId \notin PromptIds(st.prompts)
    THEN st
    ELSE LET k == IndexOf(st.prompts, e.detail.promptId)
             newPrompts == [j \in DOMAIN st.prompts |->
                              IF j = k
                              THEN [st.prompts[j] EXCEPT !.text = e.detail.text,
                                                         !.weight = e.detail.weight,
                                                         !.cc = e.detail.cc]
                              ELSE [st.prompts[j] EXCEPT !.weight = e.detail.weight]]
         IN [prompts |-> newPrompts,
             published |-> Append(st.published, newPrompts)]

\* handlePromptChanged(e) on st = [prompts, published]
\* mutant: the changed record is deleted and inserted again, at the end
handlePromptChangedReinserts(st, e) ==
    IF e.detail.promptId \notin PromptIds(st.prompts)
    THEN st
    ELSE LET k == IndexOf(st.prompts, e.detail.promptId)
             changed == [st.prompts[k] EXCEPT !.text = e.detail.text,
                                              !.weight = e.detail.weight,
                                              !.cc = e.detail.cc]
             newPrompts == Append(SubSeq(st.prompts, 1, k - 1)
                                    \o SubSeq(st.prompts, k + 1, Len(st.prompts)),
                                  changed)
         IN [prompts |-> newPrompts, published |-> Append(st.published, newPrompts)]

\* mutant: a change for an id the registry lacks is stored as a new entry
handlePromptChangedAddsUnknown(st, e) ==
    LET known == e.detail.promptId \in PromptIds(st.prompts)
        k == IF known THEN IndexOf(st.prompts, e.detail.promptId)
                      ELSE Len(st.prompts) + 1
        old == IF known THEN st.prompts
                        ELSE Append(st.prompts, e.detail)
        newPrompts == [old EXCEPT ![k].text = e.detail.text,
                                  ![k].weight = e.detail.weight,
                                  ![k].cc = e.detail.cc]
    IN [prompts |-> newPrompts, published |-> Append(st.published, newPrompts)]

handlePromptChanged(st, e) ==
    IF e.detail.promptId \notin PromptIds(st.prompts)
    THEN st
    ELSE LET k == IndexOf(st.prompts, e.detail.promptId)
             newPrompts == [st.prompts EXCEPT ![k].text = e.detail.text,
                                              ![k].weight = e.detail.weight,
                                              ![k].cc = e.detail.cc]
         IN [prompts |-> newPrompts,
             published |-> Append(st.published, newPrompts)]

\* the events of one step, handled in the order they were dispatched
RECURSIVE HandleAll(_, _)
HandleAll(st, events) ==
    IF events = <<>> THEN st
    ELSE HandleAll(handlePromptChanged(st, Head(events)), Tail(events))

addFilteredPrompt(set, prompt) == set \cup {prompt}

\* mutant: the filtered flag is computed from the text of the previous render
renderPromptsStaleFlag(oldPrompts, oldFiltered, oldShow, newPrompts, newFiltered, newShow, els) ==
    [k \in DOMAIN els |->
        LET o == oldPrompts[k]
            n == newPrompts[k]
            oldFlag == o.text \in oldFiltered
            newFlag == o.text \in newFiltered
            bound == [els[k] EXCEPT
                        !.promptId = IF n.promptId # o.promptId THEN n.promptId ELSE @,
                        !.filtered = IF newFlag # oldFlag THEN newFlag ELSE @,
                        !.cc       = IF n.cc # o.cc THEN n.cc ELSE @,
                        !.text     = IF n.text # o.text THEN n.text ELSE @,
                        !.weight   = IF n.weight # o.weight THEN n.weight ELSE @,
                        !.color    = IF n.color # o.color THEN n.color ELSE @,
                        !.showCC   = IF newShow # oldShow THEN newShow ELSE @]
        IN update(bound, bound.showCC # els[k].showCC)]

\* renderPrompts: a binding is committed to the element when its value differs
\* from the value committed by the previous render
renderPrompts(oldPrompts, oldFiltered, oldShow, newPrompts, newFiltered, newShow, els) ==
    [k \in DOMAIN els |->
        LET o == oldPrompts[k]
            n == newPrompts[k]
            oldFlag == o.text \in oldFiltered
            newFlag == n.text \in newFiltered
            bound == [els[k] EXCEPT
                        !.promptId = IF n.promptId # o.promptId THEN n.promptId ELSE @,
                        !.filtered = IF newFlag # oldFlag THEN newFlag ELSE @,
                        !.cc       = IF n.cc # o.cc THEN n.cc ELSE @,
                        !.text     = IF n.text # o.text THEN n.text ELSE @,
                        !.weight   = IF n.weight # o.weight THEN n.weight ELSE @,
                        !.color    = IF n.color # o.color THEN n.color ELSE @,
                        !.showCC   = IF newShow # oldShow THEN newShow ELSE @]
        IN update(bound, bound.showCC # els[k].showCC)]

\* the elements of the first render, after firstUpdated
InitialSlots(ps) ==
    [k \in DOMAIN ps |->
        [promptId |-> ps[k].promptId,
         text |-> ps[k].text,
         weight |-> ps[k].weight,
         color |-> ps[k].color,
         filtered |-> FALSE,
         cc |-> ps[k].cc,
         channel |-> 0,
         learnMode |-> FALSE,
         showCC |-> FALSE,
         lastValidText |-> ps[k].text]]

(***************************************************************************)
(* main                                                                    *)
(***************************************************************************)
\* mutant: nothing listens to prompts-changed
ForwardPromptsUnwired(client, events) == client

\* the prompts-changed listener: setWeightedPrompts with the event's detail
ForwardPrompts(client, events) ==
    IF events = <<>> THEN client ELSE events[Len(events)]

\* main has built the page from the registry `initialPrompts`, and the first
\* render has run: firstUpdated drew a frame on the empty spectrum, which
\* paints nothing, and drawLoop requested the first animation frame
InitWith(initialPrompts) ==
    /\ prompts = initialPrompts
    /\ slots = InitialSlots(initialPrompts)
    /\ showMidi = FALSE
    /\ filteredPrompts = {}
    /\ midiInputIds = <<>>
    /\ activeMidiInputId = NoDevice
    /\ pendingAccess = 0
    /\ midiAccess = FALSE
    /\ clientPrompts = initialPrompts
    /\ fired = <<>>
    /\ published = <<>>
    /\ errors = <<>>
    /\ cleared = {}
    /\ clicked = 0
    /\ playbackState = "stopped"
    /\ audioLevel = 0
    /\ frequencyData = <<>>
    /\ rafId = 0
    /\ rafPending = {}
    /\ rafLast = 1
    /\ canvasBars = <<>>
    /\ feedPaused = TRUE

Init == InitWith(buildInitialPrompts)

\* the slots' handlers have run and dispatched `events`: the registry handles
\* them, main forwards what it publishes, and the requested render follows
Settle(newSlots, events, newFiltered, newShow) ==
    LET st == HandleAll([prompts |-> prompts, published |-> <<>>], events)
        rendered == renderPrompts(prompts, filteredPrompts, showMidi,
                                  st.prompts, newFiltered, newShow, newSlots)
    IN /\ fired' = events
       /\ filteredPrompts' = newFiltered
       /\ showMidi' = newShow
       /\ prompts' = st.prompts
       /\ published' = st.published
       /\ clientPrompts' = ForwardPrompts(clientPrompts, st.published)
       /\ slots' = rendered
       /\ cleared' = { k \in DOMAIN rendered :
                         newSlots[k].learnMode /\ ~rendered[k].learnMode }

RECURSIVE Concat(_)
Concat(seqs) ==
    IF seqs = <<>> THEN <<>> ELSE Head(seqs) \o Concat(Tail(seqs))

CcMessages == [channel : CcChannels, cc : CcNumbers, value : CcValues]

\* a control-change message reaches every slot's listener, in grid order
CcMessageOf(msg) ==
    LET res == [k \in DOMAIN slots |-> OnCcMessage(slots[k], msg)]
    IN /\ midiAccess
       /\ errors' = <<>>
       /\ UNCHANGED <<midiInputIds, activeMidiInputId, pendingAccess, midiAccess>>
       /\ clicked' = 0
       /\ UNCHANGED audioVars
       /\ Settle([k \in DOMAIN slots |-> res[k].slot],
                 Concat([k \in DOMAIN slots |-> res[k].events]),
                 filteredPrompts, showMidi)

CcMessage == \E msg \in CcMessages : CcMessageOf(msg)

\* the text field of slot k loses focus holding `content`
TextBlurOf(k, content) ==
    LET res == updateText(slots[k], content)
    IN /\ errors' = <<>>
       /\ UNCHANGED <<midiInputIds, activeMidiInputId, pendingAccess, midiAccess>>
       /\ clicked' = 0
       /\ UNCHANGED audioVars
       /\ Settle([slots EXCEPT ![k] = res.slot], res.events,
                 filteredPrompts, showMidi)

TextBlur == \E k \in EditSlots, content \in TextContents : TextBlurOf(k, content)

\* the weight knob of slot k is dragged to `value`
KnobInputOf(k, value) ==
    LET res == updateWeight(slots[k], value)
    IN /\ errors' = <<>>
       /\ UNCHANGED <<midiInputIds, activeMidiInputId, pendingAccess, midiAccess>>
       /\ clicked' = 0
       /\ UNCHANGED audioVars
       /\ Settle([slots EXCEPT ![k] = res.slot], res.events,
                 filteredPrompts, showMidi)

KnobInput == \E k \in EditSlots, value \in KnobValues : KnobInputOf(k, value)

\* the CC label of slot k is clicked
LearnClickOf(k) ==
    /\ MidiLabelClickable(slots[k])
    /\ errors' = <<>>
    /\ UNCHANGED <<midiInputIds, activeMidiInputId, pendingAccess, midiAccess>>
    /\ clicked' = k
    /\ UNCHANGED audioVars
    /\ Settle([slots EXCEPT ![k] = toggleLearnMode(slots[k])], <<>>,
              filteredPrompts, showMidi)

LearnClick == \E k \in LearnSlots : LearnClickOf(k)

\* the generation client reports that it filtered `text`
FilteredPromptOf(text) ==
    /\ errors' = <<>>
    /\ UNCHANGED <<midiInputIds, activeMidiInputId, pendingAccess, midiAccess>>
    /\ clicked' = 0
    /\ UNCHANGED audioVars
    /\ Settle(slots, <<>>, addFilteredPrompt(filteredPrompts, text), showMidi)

FilteredPrompt == \E text \in FilterTexts : FilteredPromptOf(text)

\* toggleShowMidi: setShowMidi(!showMidi) up to its await
ToggleShowMidi ==
    /\ showMidi \/ pendingAccess < MaxPendingAccess
    /\ pendingAccess' = IF ~showMidi THEN pendingAccess + 1 ELSE pendingAccess
    /\ errors' = <<>>
    /\ UNCHANGED <<midiInputIds, activeMidiInputId, midiAccess>>
    /\ clicked' = 0
    /\ UNCHANGED audioVars
    /\ Settle(slots, <<>>, filteredPrompts, ~showMidi)

\* getMidiAccess resolves: setShowMidi resumes in its try block; the
\* dispatcher's active device is the one handleMidiInputChange last gave it,
\* which activeMidiInputId already holds
MidiAccessGranted ==
    /\ pendingAccess > 0
    /\ pendingAccess' = pendingAccess - 1
    /\ \E inputIds \in DeviceLists : midiInputIds' = inputIds
    /\ midiAccess' = TRUE
    /\ errors' = <<>>
    /\ UNCHANGED activeMidiInputId
    /\ clicked' = 0
    /\ UNCHANGED audioVars
    /\ Settle(slots, <<>>, filteredPrompts, showMidi)

\* mutant: the catch block reports the failure and leaves the panel as it is
MidiAccessDeniedKeepsPanel(message) ==
    /\ pendingAccess > 0
    /\ pendingAccess' = pendingAccess - 1
    /\ errors' = <<message>>
    /\ UNCHANGED <<midiInputIds, activeMidiInputId, midiAccess>>
    /\ clicked' = 0
    /\ UNCHANGED audioVars
    /\ Settle(slots, <<>>, filteredPrompts, showMidi)

\* getMidiAccess rejects with `message`: setShowMidi resumes in its catch
\* block, which hides the panel and dispatches one error event
MidiAccessDeniedOf(message) ==
    /\ pendingAccess > 0
    /\ pendingAccess' = pendingAccess - 1
    /\ errors' = <<message>>
    /\ UNCHANGED <<midiInputIds, activeMidiInputId, midiAccess>>
    /\ clicked' = 0
    /\ UNCHANGED audioVars
    /\ Settle(slots, <<>>, filteredPrompts, FALSE)

MidiAccessDenied == \E message \in AccessFailures : MidiAccessDeniedOf(message)

\* handleMidiInputChange: the performer picks a device in the select, which
\* is visible while the panel is shown and lists midiInputIds
MidiInputChangeOf(newMidiId) ==
    /\ showMidi
    /\ activeMidiInputId' = newMidiId
    /\ errors' = <<>>
    /\ UNCHANGED <<midiInputIds, pendingAccess, midiAccess>>
    /\ clicked' = 0
    /\ UNCHANGED audioVars
    /\ Settle(slots, <<>>, filteredPrompts, showMidi)

MidiInputChange ==
    \E i \in DOMAIN midiInputIds : MidiInputChangeOf(midiInputIds[i])

Next ==
    \/ CcMessage
    \/ TextBlur
    \/ KnobInput
    \/ LearnClick
    \/ FilteredPrompt
    \/ ToggleShowMidi
    \/ MidiAccessGranted
    \/ MidiAccessDenied

Spec == Init /\ [][Next]_vars

NextMidi ==
    \/ ToggleShowMidi
    \/ MidiAccessGranted
    \/ MidiAccessDenied
    \/ MidiInputChange
    \/ LearnClick
    \/ CcMessage

\* the MIDI panel: access requests, device selection, learning and messages
SpecMidi == Init /\ [][NextMidi]_vars

(***************************************************************************)
(* AudioAnalyser and the playback wiring of main                           *)
(***************************************************************************)
\* freqData.reduce((a, b) => a + b, 0), summed by halves
RECURSIVE SumRange(_, _, _)
SumRange(data, lo, hi) ==
    IF lo > hi THEN 0
    ELSE IF lo = hi THEN data[lo]
    ELSE LET mid == (lo + hi) \div 2
         IN SumRange(data, lo, mid) + SumRange(data, mid + 1, hi)

SumOf(data) == SumRange(data, 1, Len(data))

\* getCurrentLevel: the average bin over 0xff
getCurrentLevel(freqData) ==
    (SumOf(freqData) * LevelUnit) \div (Len(freqData) * ByteMax)

\* AudioAnalyser.loop, run for the due handle `due` (0 when start() calls it):
\* it schedules itself, samples twice and dispatches audio-data-changed, whose
\* listener in main stores the level and the copied spectrum
loop(due, levelSample, dataSample) ==
    /\ rafLast < MaxFrames
    /\ rafLast' = rafLast + 1
    /\ rafId' = rafLast + 1
    /\ rafPending' = (rafPending \ {due}) \cup {rafLast + 1}
    /\ audioLevel' = getCurrentLevel(levelSample)
    /\ frequencyData' = dataSample

\* AudioAnalyser.stop
stop ==
    /\ rafPending' = IF rafId # 0 THEN rafPending \ {rafId} ELSE rafPending
    /\ rafId' = 0
    /\ UNCHANGED rafLast

\* playback-state-changed with detail 'playing'
PlaybackPlaying ==
    /\ playbackState # "playing"
    /\ playbackState' = "playing"
    /\ \E levelSample \in Spectra, dataSample \in Spectra :
        loop(0, levelSample, dataSample)
    /\ feedPaused' = FALSE
    /\ UNCHANGED canvasBars
    /\ UNCHANGED promptVars

\* playback-state-changed with detail 'stopped' or 'paused'
PlaybackStopped ==
    /\ \E state \in {"stopped", "paused"} :
        /\ playbackState # state
        /\ playbackState' = state
    /\ stop
    /\ audioLevel' = 0
    /\ frequencyData' = <<>>
    /\ feedPaused' = TRUE
    /\ UNCHANGED canvasBars
    /\ UNCHANGED promptVars

\* playback-state-changed with detail 'loading'
PlaybackLoading ==
    /\ playbackState # "loading"
    /\ playbackState' = "loading"
    /\ UNCHANGED <<audioLevel, frequencyData, rafId, rafPending, rafLast, feedPaused>>
    /\ UNCHANGED canvasBars
    /\ UNCHANGED promptVars

\* the browser runs a due animation-frame callback of the analyser
AnimationFrame ==
    /\ \E due \in rafPending, levelSample \in Spectra, dataSample \in Spectra :
        loop(due, levelSample, dataSample)
    /\ UNCHANGED <<playbackState, feedPaused, canvasBars>>
    /\ UNCHANGED promptVars

\* Array.from(prompts.values()).find(p => p.weight > 0.5)?.color || '#ff00ff'
activeColor(ps) ==
    LET above == { k \in DOMAIN ps : 2 * ps[k].weight > WeightUnit }
    IN IF above = {}
       THEN "#ff00ff"
       ELSE ps[CHOOSE k \in above : \A j \in above : k <= j].color

\* drawVisualizer: nothing is touched on an empty spectrum; otherwise the
\* canvas is cleared and one bar per bin is painted, its height the bin's
\* share of 255 (in units of 0.4 * canvas.height / 255)
drawVisualizer(bars, freqData, ps) ==
    IF freqData = <<>>
    THEN bars
    ELSE [i \in DOMAIN freqData |->
            [barHeight |-> freqData[i], color |-> activeColor(ps)]]

\* the browser runs drawLoop's animation-frame callback: it draws and
\* requests the next frame
DrawFrame ==
    /\ rafLast < MaxFrames
    /\ rafLast' = rafLast + 1
    /\ canvasBars' = drawVisualizer(canvasBars, frequencyData, prompts)
    /\ UNCHANGED <<playbackState, audioLevel, frequencyData, rafId, rafPending,
                   feedPaused>>
    /\ UNCHANGED promptVars

\* the window is resized: assigning canvas.width and canvas.height resets
\* the canvas
ResizeCanvas ==
    /\ canvasBars # <<>>
    /\ canvasBars' = <<>>
    /\ UNCHANGED <<playbackState, audioLevel, frequencyData, rafId, rafPending,
                   rafLast, feedPaused>>
    /\ UNCHANGED promptVars

NextAudio ==
    \/ PlaybackPlaying
    \/ PlaybackStopped
    \/ PlaybackLoading
    \/ AnimationFrame
    \/ DrawFrame
    \/ ResizeCanvas

SpecAudio == Init /\ [][NextAudio]_vars

\* weights the performer may have left a slot at: 0, 0.5, 1 and 2
WeightSamples == {0, WeightUnit \div 2, 1 * WeightUnit, 2 * WeightUnit}
\* the slots whose weight is set; every other slot is turned down to 0
ColorSlots == 1..3

\* the registry the page is built from, with the weights `ws`
WeightedPrompts(ws) ==
    [k \in DOMAIN buildInitialPrompts |->
        [buildInitialPrompts[k] EXCEPT
            !.weight = IF k \in ColorSlots THEN ws[k] ELSE 0]]

InitColor ==
    \E ws \in [ColorSlots -> WeightSamples] : InitWith(WeightedPrompts(ws))

NextColor ==
    \/ PlaybackPlaying
    \/ PlaybackStopped
    \/ DrawFrame

\* the visualizer over every assignment of the sampled weights
SpecColor == InitColor /\ [][NextColor]_vars

\* ids no registry entry has: one past the last slot, and the default of the
\* promptId property
StrayIds == { PromptIdOf(Len(DEFAULT_PROMPTS)), "" }

\* handlePromptChanged receives a prompt-changed event from an element that
\* is as slot k but whose promptId was set to `id`
StrayPromptChangedOf(k, id) ==
    /\ errors' = <<>>
    /\ clicked' = 0
    /\ UNCHANGED <<midiInputIds, activeMidiInputId, pendingAccess, midiAccess>>
    /\ UNCHANGED audioVars
    /\ Settle(slots, <<dispatchPromptChange([slots[k] EXCEPT !.promptId = id])>>,
              filteredPrompts, showMidi)

StrayPromptChanged ==
    \E k \in DOMAIN slots, id \in StrayIds : StrayPromptChangedOf(k, id)

NextRegistry ==
    \/ TextBlur
    \/ KnobInput
    \/ FilteredPrompt
    \/ StrayPromptChanged

\* the registry under edits and under events that name no entry
SpecRegistry == Init /\ [][NextRegistry]_vars

(***************************************************************************)
(* Properties                                                              *)
(***************************************************************************)
\* the events of the last step that slot k dispatched
FiredBy(events, k) ==
    { i \in DOMAIN events : events[i].detail.promptId = slots[k].promptId }

EmptyContents ==
    { content \in TextContents : \A i \in DOMAIN content : content[i] = Blank }

\* C1: a CC message with value v delivered to an Idle slot whose cc is the
\* message's controller leaves the slot's weight at (v / 127) * 2, that is
\* weight * 127 = 2 * v, and the slot fires a prompt-changed event that
\* carries this weight.
C1_CcSetsWeight ==
    [][\A msg \in CcMessages, k \in DOMAIN slots :
          (~slots[k].learnMode /\ slots[k].cc = msg.cc /\ CcMessageOf(msg))
          => /\ slots'[k].weight * MidiMax = 2 * msg.value * WeightUnit
             /\ \E i \in FiredBy(fired', k) :
                   fired'[i].detail.weight * MidiMax = 2 * msg.value * WeightUnit]_vars

\* a bound slot without a knob in use holds, and has just announced, the
\* weight of CC value 127
C1_Witness ==
    \E k \in DOMAIN slots \ EditSlots, i \in DOMAIN fired :
        /\ fired[i].detail.promptId = slots[k].promptId
        /\ ~slots[k].learnMode
        /\ slots[k].weight * MidiMax = 2 * 127 * WeightUnit
        /\ fired[i].detail.weight = slots[k].weight
        /\ prompts[k].weight = slots[k].weight

\* C2: an empty or whitespace-only text edit leaves the slot's text as it
\* was and fires no prompt-changed event.
C2_EmptyTextSilent ==
    [][\A k \in EditSlots, content \in EmptyContents :
          TextBlurOf(k, content)
          => /\ slots'[k].text = slots[k].text
             /\ fired' = <<>>]_vars

\* C3: a CC message received by a Learning slot makes it Idle, overwrites its
\* cc and channel with the message's, whatever they were, and the slot fires
\* exactly one prompt-changed event.
C3_LearnBinds ==
    [][\A msg \in CcMessages, k \in DOMAIN slots :
          (slots[k].learnMode /\ CcMessageOf(msg))
          => /\ ~slots'[k].learnMode
             /\ slots'[k].cc = msg.cc
             /\ slots'[k].channel = msg.channel
             /\ Cardinality(FiredBy(fired', k)) = 1]_vars

\* two Learning slots were bound by one message on channel 15, controller 1:
\* both announce the new controller with their weight still the preset
C3_Witness ==
    /\ Len(fired) = 2
    /\ \A i \in DOMAIN fired :
          /\ fired[i].detail.cc = 1
          /\ fired[i].detail.weight = 1 * WeightUnit
          /\ fired[i].target.channel = 15
    /\ \A k \in LearnSlots :
          /\ ~slots[k].learnMode
          /\ slots[k].cc = 1
          /\ slots[k].channel = 15

\* C4: from a 'stopped' or 'paused' report until the next 'playing' report
\* the audio level is 0 and the spectrum is empty, whatever playback-state
\* events came before.
C4_FeedSilentWhilePaused ==
    feedPaused => (audioLevel = 0 /\ frequencyData = <<>>)

\* C5: when the MIDI panel is hidden, also when a failed access request
\* reverted it to hidden, no slot is Learning.
C5_HiddenPanelIdle ==
    ~showMidi => \A k \in DOMAIN slots : ~slots[k].learnMode

\* a failed access request hid the panel while both slots were Learning
C5_Witness ==
    /\ ~showMidi
    /\ errors # <<>>
    /\ cleared = LearnSlots

\* C6 as claimed: every prompt-changed event carries the emitting slot's
\* promptId, text, weight, cc, channel and color as they are when it fires.
C6_FullSnapshot ==
    \A i \in DOMAIN fired :
        fired[i].detail = [promptId |-> fired[i].target.promptId,
                           text     |-> fired[i].target.text,
                           weight   |-> fired[i].target.weight,
                           cc       |-> fired[i].target.cc,
                           channel  |-> fired[i].target.channel,
                           color    |-> fired[i].target.color]

\* C6 as amended: every prompt-changed event carries the emitting slot's
\* promptId, text, weight, cc and color as they are when it fires, and no
\* channel.
C6_SnapshotWithoutChannel ==
    \A i \in DOMAIN fired :
        fired[i].detail = [promptId |-> fired[i].target.promptId,
                           text     |-> fired[i].target.text,
                           weight   |-> fired[i].target.weight,
                           cc       |-> fired[i].target.cc,
                           color    |-> fired[i].target.color]

\* a slot bound on channel 15 to a controller other than its preset fires
C6_Witness ==
    \E i \in DOMAIN fired :
        /\ fired[i].target.channel = 15
        /\ fired[i].target.promptId = PromptIdOf(0)
        /\ fired[i].target.cc = 1
        /\ fired[i].detail.cc = 1

\* C7: after a prompt-changed event for a known promptId is handled, the
\* registry record of that id has the event's text, weight and cc, and the
\* promptId and color it had before.
C7_ApplyChangeRoundTrip ==
    [][\A i \in DOMAIN fired' :
          fired'[i].detail.promptId \in PromptIds(prompts)
          => LET d == fired'[i].detail
                 k == IndexOf(prompts, d.promptId)
             IN /\ prompts'[k].text = d.text
                /\ prompts'[k].weight = d.weight
                /\ prompts'[k].cc = d.cc
                /\ prompts'[k].promptId = prompts[k].promptId
                /\ prompts'[k].color = prompts[k].color]_vars

\* an event was just applied to a record whose text, weight and cc have all
\* left the preset
C7_Witness ==
    /\ Len(fired) = 1
    /\ fired[1].detail.promptId = PromptIdOf(0)
    /\ prompts[1].text = <<"Acid", Blank, "Bass">>
    /\ prompts[1].weight = (14 * WeightUnit) \div 10
    /\ prompts[1].cc = 1
    /\ prompts[1].color = buildInitialPrompts[1].color

\* C8: a change to one slot leaves every other registry entry as it was; a
\* knob edit of slot k to v publishes a snapshot with weight v for k and, for
\* every other entry, the text, weight, cc and color it had.
C8_OtherEntriesUnchanged ==
    [][/\ \A j \in DOMAIN prompts :
             (\A i \in DOMAIN fired' :
                  fired'[i].detail.promptId # prompts[j].promptId)
             => prompts'[j] = prompts[j]
       /\ \A k \in EditSlots, value \in KnobValues :
             KnobInputOf(k, value)
             => /\ Len(published') = 1
                /\ published'[1][k].weight = value
                /\ \A j \in DOMAIN prompts \ {k} :
                      published'[1][j] = prompts[j]]_vars

\* prompt-0 was set to 1.4 on the preset: the published snapshot has it, and
\* the preset everywhere else
C8_Witness ==
    /\ Len(published) = 1
    /\ published[1][1].weight = (14 * WeightUnit) \div 10
    /\ \A j \in 2..Len(buildInitialPrompts) :
          published[1][j] = buildInitialPrompts[j]
    /\ published[1] = prompts

\* C9: when the prompt-changed events of a step have been handled, each has
\* had the full ordered mapping published as prompts-changed, and the last
\* snapshot handed to setWeightedPrompts is the registry's current mapping.
C9_SnapshotForwarded ==
    /\ Len(published) = Len(fired)
    /\ \A i \in DOMAIN published :
          [k \in DOMAIN published[i] |-> published[i][k].promptId]
              = [k \in DOMAIN buildInitialPrompts |-> PromptIdOf(k - 1)]
    /\ published # <<>> => published[Len(published)] = prompts
    /\ clientPrompts = prompts

\* two slots changed in one step and the client holds the result
C9_Witness ==
    /\ Len(fired) = 2
    /\ Len(published) = 2
    /\ published[1] # published[2]
    /\ clientPrompts = published[2]
    /\ clientPrompts # buildInitialPrompts

\* C10: a slot is rendered as filtered exactly when its current text is in
\* filteredPrompts.
C10_FilteredIffTextFlagged ==
    \A k \in DOMAIN slots :
        slots[k].filtered <=> slots[k].text \in filteredPrompts

\* slot 1 was edited to a flagged text (flagged, like slot 2 that holds it
\* from the start)
C10_Witness ==
    /\ filteredPrompts = { <<"Techno">> }
    /\ slots[1].text = <<"Techno">>
    /\ slots[1].filtered
    /\ slots[2].filtered
    /\ ~slots[3].filtered

\* C11: in every reachable state, whatever CC messages, knob drags, text
\* edits and learn clicks came before, the weight of every slot and of every
\* registry record lies in [0, 2].
C11_WeightsInRange ==
    \A k \in DOMAIN slots :
        /\ 0 <= slots[k].weight /\ slots[k].weight <= 2 * WeightUnit
        /\ 0 <= prompts[k].weight /\ prompts[k].weight <= 2 * WeightUnit

\* before any CC message could arrive, a drag past the knob's end left slot 1
\* and its record at 2; the record of slot 2 is at its preset 1
C11_Witness ==
    /\ ~midiAccess
    /\ Len(fired) = 1
    /\ fired[1].detail.weight = 2 * WeightUnit
    /\ slots[1].weight = 2 * WeightUnit
    /\ prompts[1].weight = 2 * WeightUnit
    /\ prompts[2].weight = 1 * WeightUnit

\* C12: a text edit that is not empty after trimming leaves the slot's text
\* and last valid text at the content without its leading and trailing
\* blanks, and fires exactly one prompt-changed event, which carries the
\* slot's record with that text.
C12_TextEditCommits ==
    [][\A k \in EditSlots, content \in TextContents \ EmptyContents :
          TextBlurOf(k, content)
          => \E lo \in DOMAIN content, hi \in DOMAIN content :
                /\ content[lo] # Blank
                /\ content[hi] # Blank
                /\ \A i \in DOMAIN content :
                      (i < lo \/ i > hi) => content[i] = Blank
                /\ slots'[k].text = SubSeq(content, lo, hi)
                /\ slots'[k].lastValidText = SubSeq(content, lo, hi)
                /\ Len(fired') = 1
                /\ fired'[1].detail = [promptId |-> slots[k].promptId,
                                       text     |-> SubSeq(content, lo, hi),
                                       weight   |-> slots[k].weight,
                                       cc       |-> slots[k].cc,
                                       color    |-> slots[k].color]]_vars

\* " Acid Bass " was entered into slot 1, whose weight and controller are
\* still the preset: the slot shows, remembers and has announced "Acid Bass"
C12_Witness ==
    /\ slots[1].text = <<"Acid", Blank, "Bass">>
    /\ slots[1].lastValidText = <<"Acid", Blank, "Bass">>
    /\ Len(fired) = 1
    /\ fired[1].detail.text = <<"Acid", Blank, "Bass">>
    /\ fired[1].detail.promptId = PromptIdOf(0)
    /\ fired[1].detail.weight = 1 * WeightUnit
    /\ prompts[1].text = <<"Acid", Blank, "Bass">>

\* C13 as claimed: a learn request on a slot that an earlier request put into
\* Learning, with no CC message in between, leaves the slot Learning.
C13_LearnIdempotent ==
    [][\A k \in LearnSlots :
          (slots[k].learnMode /\ LearnClickOf(k)) => slots'[k].learnMode]_vars

\* C13 as amended: a learn request toggles the slot: it puts an Idle slot
\* into Learning and returns a Learning slot to Idle, in both cases without
\* changing cc or channel and without a prompt-changed event.
C13_LearnRequestToggles ==
    [][\A k \in LearnSlots :
          LearnClickOf(k)
          => /\ slots'[k].learnMode = ~slots[k].learnMode
             /\ slots'[k].cc = slots[k].cc
             /\ slots'[k].channel = slots[k].channel
             /\ fired' = <<>>]_vars

\* the CC label of slot 1 was just clicked and the slot is Idle, never having
\* been bound: the click before put it into Learning, this one took it out
C13_Witness ==
    /\ clicked = 1
    /\ showMidi
    /\ ~slots[1].learnMode
    /\ slots[1].channel = 0
    /\ slots[1].cc = buildInitialPrompts[1].cc

\* C14: in every reachable state the registry's keys, in order, are the 16
\* ids prompt-0 .. prompt-15 created at startup: no prompt change and no
\* filter event adds, removes or reorders an entry.
C14_RegistryKeysFixed ==
    [k \in DOMAIN prompts |-> prompts[k].promptId]
        = << "prompt-0", "prompt-1", "prompt-2", "prompt-3",
             "prompt-4", "prompt-5", "prompt-6", "prompt-7",
             "prompt-8", "prompt-9", "prompt-10", "prompt-11",
             "prompt-12", "prompt-13", "prompt-14", "prompt-15" >>

\* one CC message has just changed the first two records while a text is
\* flagged as filtered
C14_Witness ==
    /\ Len(published) = 2
    /\ prompts[1] # buildInitialPrompts[1]
    /\ prompts[2] # buildInitialPrompts[2]
    /\ filteredPrompts # {}

\* C15: when several slots are Learning and a CC message arrives, exactly one
\* of them binds to it and becomes Idle; every other Learning slot stays
\* Learning with its cc and channel as they were.
C15_OneLearnerBinds ==
    [][\A msg \in CcMessages :
          LET learning == { k \in DOMAIN slots : slots[k].learnMode }
          IN (Cardinality(learning) >= 2 /\ CcMessageOf(msg))
             => \E w \in learning :
                   /\ ~slots'[w].learnMode
                   /\ slots'[w].cc = msg.cc
                   /\ slots'[w].channel = msg.channel
                   /\ \A k \in learning \ {w} :
                         /\ slots'[k].learnMode
                         /\ slots'[k].cc = slots[k].cc
                         /\ slots'[k].channel = slots[k].channel]_vars

\* C16: once playback has stopped or paused and the spectrum is empty, the
\* next frame of the draw loop leaves the canvas without any bar of the last
\* spectrum.
C16_CanvasClearsAfterStop ==
    [][(feedPaused /\ frequencyData = <<>> /\ DrawFrame)
       => \A i \in DOMAIN canvasBars' : canvasBars'[i].barHeight = 0]_vars

\* C17: on each frame that paints bars, their color is the color of a prompt
\* whose weight is the highest among the weights above 0.5, and the default
\* #ff00ff when no weight is above 0.5.
C17_BarColorOfHighest ==
    [][(frequencyData # <<>> /\ DrawFrame)
       => LET above == { k \in DOMAIN prompts : 2 * prompts[k].weight > WeightUnit }
          IN \A i \in DOMAIN canvasBars' :
                IF above = {}
                THEN canvasBars'[i].color = "#ff00ff"
                ELSE \E k \in above :
                        /\ \A j \in above : prompts[j].weight <= prompts[k].weight
                        /\ canvasBars'[i].color = prompts[k].color]_vars

\* C18: a prompt-changed event whose promptId is not in the registry changes
\* no registry record and no membership, publishes no prompts-changed event
\* and hands nothing to the generation client.
C18_UnknownPromptIgnored ==
    [][\A k \in DOMAIN slots, id \in StrayIds :
          StrayPromptChangedOf(k, id)
          => /\ prompts' = prompts
             /\ published' = <<>>
             /\ clientPrompts' = clientPrompts
             /\ slots' = slots]_vars

\* an event for prompt-16 carrying an edited text and weight was just
\* handled: the registry still has its 16 entries and nothing was published
C18_Witness ==
    /\ Len(fired) = 1
    /\ fired[1].detail.promptId = "prompt-16"
    /\ fired[1].detail.text = <<"Acid", Blank, "Bass">>
    /\ fired[1].detail.weight = 2 * WeightUnit
    /\ published = <<>>
    /\ Len(prompts) = Len(buildInitialPrompts)
    /\ clientPrompts = prompts

\* C19: a CC message whose controller is not the cc of an Idle slot leaves
\* that slot's weight, text, cc, channel and learn state as they were and the
\* slot fires no prompt-changed event, so its record in the registry and in
\* the generation client's snapshot stays as it was; when every slot ignores
\* the message, nothing is published and both stay as they were entirely.
C19_OtherControllerIgnored ==
    [][\A msg \in CcMessages :
          CcMessageOf(msg)
          => LET ignoring == { k \in DOMAIN slots :
                                 ~slots[k].learnMode /\ slots[k].cc # msg.cc }
             IN /\ \A k \in ignoring :
                      /\ slots'[k].weight = slots[k].weight
                      /\ slots'[k].text = slots[k].text
                      /\ slots'[k].cc = slots[k].cc
                      /\ slots'[k].channel = slots[k].channel
                      /\ slots'[k].learnMode = slots[k].learnMode
                      /\ FiredBy(fired', k) = {}
                      /\ prompts'[k] = prompts[k]
                      /\ clientPrompts'[k] = clientPrompts[k]
                /\ ignoring = DOMAIN slots
                      => /\ published' = <<>>
                         /\ prompts' = prompts
                         /\ clientPrompts' = clientPrompts]_vars

\* a message for controller 1 with value 127 has just set the weight of slot
\* 2, never rebound; slot 1, Idle on controller 0, keeps its preset record
C19_Witness ==
    /\ Len(fired) = 1
    /\ fired[1].detail.promptId = PromptIdOf(1)
    /\ fired[1].target.channel = 0
    /\ fired[1].detail.cc = 1
    /\ fired[1].detail.weight * MidiMax = 2 * 127 * WeightUnit
    /\ ~slots[1].learnMode
    /\ slots[1].cc = 0
    /\ slots[1].channel = 0
    /\ prompts[1] = buildInitialPrompts[1]
    /\ clientPrompts[1] = buildInitialPrompts[1]

\* C20: when the access request of a show fails, the panel ends hidden, one
\* error event carrying the failure message is dispatched, midiInputIds and
\* activeMidiInputId stay as they were and the attempt is over, whatever
\* shows and hides came while it was pending.
C20_FailedAccessRecovered ==
    [][\A message \in AccessFailures :
          MidiAccessDeniedOf(message)
          => /\ ~showMidi'
             /\ errors' = <<message>>
             /\ midiInputIds' = midiInputIds
             /\ activeMidiInputId' = activeMidiInputId
             /\ pendingAccess' = pendingAccess - 1]_vars

\* after a granted request and a device selection, the panel was hidden and
\* shown again and a slot put into Learning; the access request of that show
\* then failed: the panel is hidden, the error is out, the devices are kept
C20_Witness ==
    /\ ~showMidi
    /\ errors = <<"PermissionDenied">>
    /\ cleared # {}
    /\ pendingAccess = 0
    /\ midiInputIds = <<"input-0">>
    /\ activeMidiInputId = "input-0"

\* C21: at most one callback of the analyser's sampling loop is scheduled at
\* any time, and none is scheduled from a 'stopped' or 'paused' report, which
\* calls stop(), until the next 'playing' report, whatever playback-state
\* events came before.
C21_SingleSamplingLoop ==
    /\ Cardinality(rafPending) <= 1
    /\ feedPaused => rafPending = {}

\* C22: when an event (CC message, learn binding, knob drag, text edit or
\* text revert) has been processed, every slot's text, weight and cc are
\* those of the registry record with the slot's promptId, and every slot has
\* such a record.
C22_SlotsAgreeWithRegistry ==
    \A k \in DOMAIN slots :
        /\ \E j \in DOMAIN prompts : prompts[j].promptId = slots[k].promptId
        /\ \A j \in DOMAIN prompts :
              prompts[j].promptId = slots[k].promptId
              => /\ slots[k].text = prompts[j].text
                 /\ slots[k].weight = prompts[j].weight
                 /\ slots[k].cc = prompts[j].cc

\* slot 1 was bound on channel 15 to controller 1, dragged to 1.4 and given
\* a new text, and has just announced all three; slot 2 took its weight from
\* a CC message: slots and records have left the preset together
C22_Witness ==
    /\ slots[1].channel = 15
    /\ slots[1].cc = 1
    /\ slots[1].weight = (14 * WeightUnit) \div 10
    /\ slots[1].text = <<"Techno">>
    /\ slots[2].weight = 2 * WeightUnit
    /\ Len(fired) = 1
    /\ fired[1].detail = [promptId |-> PromptIdOf(0),
                          text     |-> <<"Techno">>,
                          weight   |-> (14 * WeightUnit) \div 10,
                          cc       |-> 1,
                          color    |-> buildInitialPrompts[1].color]
    /\ prompts[1] = fired[1].detail
    /\ prompts[2].weight = 2 * WeightUnit

====
